---- MODULE Spec2Model ----
(***************************************************************************)
(* Model of src/main.py: the XML rule parser, the name-based categoriser,  *)
(* the two evaluators (check_performance, check_location), the aggregator  *)
(* run_all_checks and the host entry point automate_function.              *)
(*                                                                         *)
(* Python strings are sequences of one-character strings, so that          *)
(* str.lower(), the substring test `in` and int() are computed rather than *)
(* assumed.  A Python value is a record [tag, s, n]:                       *)
(*   None   -> tag "none";  str -> tag "str", characters in s;             *)
(*   int    -> tag "int", value in n;  bool -> tag "bool", n in {0,1}.     *)
(***************************************************************************)
EXTENDS Integers, Sequences, FiniteSets, TLC

VARIABLES xml_file, model_data, pc, error, checks, performance_results,
          location_results, comparisons, results, returned, log, output,
          run, first_outcome

vars == <<xml_file, model_data, pc, error, checks, performance_results,
          location_results, comparisons, results, returned, log, output,
          run, first_outcome>>

(* ---------------------------- bounds ---------------------------------- *)
MaxChecks == 2
MaxRecords == 2

(* ------------------------- Python values ------------------------------ *)
None == [tag |-> "none", s |-> <<>>, n |-> 0]
Str(cs) == [tag |-> "str", s |-> cs, n |-> 0]
Int_(k) == [tag |-> "int", s |-> <<>>, n |-> k]
Bool_(b) == [tag |-> "bool", s |-> <<>>, n |-> IF b THEN 1 ELSE 0]

\* bool(v): the truth value Python gives to v in `if obj.get(...)`
Truthy(v) ==
    CASE v.tag = "none" -> FALSE
      [] v.tag = "str"  -> Len(v.s) > 0
      [] v.tag = "int"  -> v.n # 0
      [] v.tag = "bool" -> v.n # 0

\* a != b where b is None or a str (an XML attribute): equal only when the
\* types agree and the contents agree
PyNe(a, b) ==
    IF a.tag # b.tag THEN TRUE
    ELSE CASE a.tag = "none" -> FALSE
           [] a.tag = "str"  -> a.s # b.s
           [] OTHER          -> a.n # b.n

\* dict.get(key): the value, or None when the key is absent
Get(obj, key) ==
    IF key.tag = "str" /\ key.s \in DOMAIN obj THEN obj[key.s] ELSE None

(* ---------------------------- strings --------------------------------- *)
UpperCase == <<"A","B","C","D","E","F","G","H","I","J","K","L","M",
               "N","O","P","Q","R","S","T","U","V","W","X","Y","Z">>
LowerCase == <<"a","b","c","d","e","f","g","h","i","j","k","l","m",
               "n","o","p","q","r","s","t","u","v","w","x","y","z">>

\* the lower-case letter of every upper-case letter
LowerOf ==
    [c \in {UpperCase[i] : i \in 1..26} |->
        LowerCase[CHOOSE i \in 1..26 : UpperCase[i] = c]]

LowerChar(c) == IF c \in DOMAIN LowerOf THEN LowerOf[c] ELSE c

\* str.lower()
lower(cs) == [i \in 1..Len(cs) |-> LowerChar(cs[i])]

\* sub in cs
Contains(sub, cs) ==
    \E i \in 0..(Len(cs) - Len(sub)) : SubSeq(cs, i + 1, i + Len(sub)) = sub

Digits == <<"0","1","2","3","4","5","6","7","8","9">>
IsDigit(c) == \E d \in 1..10 : Digits[d] = c
DigitVal(c) == (CHOOSE d \in 1..10 : Digits[d] = c) - 1

RECURSIVE lstrip(_)
lstrip(cs) == IF cs # <<>> /\ Head(cs) = " " THEN lstrip(Tail(cs)) ELSE cs
RECURSIVE rstrip(_)
rstrip(cs) ==
    IF cs # <<>> /\ cs[Len(cs)] = " " THEN rstrip(SubSeq(cs, 1, Len(cs) - 1))
    ELSE cs

\* the digits-and-underscores body of an integer literal: digits, with single
\* underscores allowed only between two digits
ValidBody(b) ==
    /\ b # <<>>
    /\ \A i \in 1..Len(b) : IsDigit(b[i]) \/ b[i] = "_"
    /\ \A i \in 1..Len(b) :
         b[i] = "_" => /\ i > 1 /\ i < Len(b)
                       /\ IsDigit(b[i - 1]) /\ IsDigit(b[i + 1])

RECURSIVE BodyVal(_, _)
BodyVal(b, acc) ==
    IF b = <<>> THEN acc
    ELSE IF Head(b) = "_" THEN BodyVal(Tail(b), acc)
    ELSE BodyVal(Tail(b), 10 * acc + DigitVal(Head(b)))

\* int(v): [err |-> "" , val |-> k] or the exception Python raises
int(v) ==
    IF v.tag # "str" /\ v.tag # "int" /\ v.tag # "bool"
    THEN [err |-> "TypeError", val |-> 0]
    ELSE IF v.tag # "str" THEN [err |-> "", val |-> v.n]
    ELSE LET t == rstrip(lstrip(v.s))
             signed == t # <<>> /\ Head(t) \in {"+", "-"}
             body == IF signed THEN Tail(t) ELSE t
         IN IF ~ValidBody(body) THEN [err |-> "ValueError", val |-> 0]
            ELSE [err |-> "",
                  val |-> IF signed /\ Head(t) = "-" THEN 0 - BodyVal(body, 0)
                          ELSE BodyVal(body, 0)]

\* str(v) as an f-string formats a name or a message
Format(v) == IF v.tag = "none" THEN <<"N","o","n","e">> ELSE v.s

(* ------------------------- string literals ---------------------------- *)
s_performance == <<"p","e","r","f","o","r","m","a","n","c","e">>
s_location == <<"l","o","c","a","t","i","o","n">>
s_view == <<"v","i","e","w">>
s_family == <<"f","a","m","i","l","y">>
s_CountOnly == <<"C","o","u","n","t","O","n","l","y">>
s_AttributeEquality == <<"A","t","t","r","i","b","u","t","e","E","q","u","a","l","i","t","y">>
s_IsWindow == <<"I","s","W","i","n","d","o","w">>
s_Level == <<"L","e","v","e","l">>
s_L1 == <<"L","1">>
s_L2 == <<"L","2">>
s_failed == <<" ","f","a","i","l","e","d",":"," ">>
s_passed == <<" ","p","a","s","s","e","d",".">>
s_validation_results == <<"v","a","l","i","d","a","t","i","o","n","_","r","e","s","u","l","t","s">>

(* ------------------------- the rule file ------------------------------ *)
\* a <Filter Property=.. Condition=.. Value=../> element; an absent attribute
\* is None (Element.get)
FilterElem(p, v) == [Property |-> p, Condition |-> None, Value |-> v]

\* a <Check .../> element with its Filter children
CheckElem(name, type, msg, fs) ==
    [CheckName |-> name, Description |-> None, CheckType |-> type,
     ResultCondition |-> None, FailureMessage |-> msg, Filters |-> fs]

WindowFilter(v) == FilterElem(Str(s_IsWindow), Str(v))
LevelFilter(v) == FilterElem(Str(s_Level), Str(v))

\* the Check elements a rule file is built from
CheckPool ==
    { CheckElem(Str(<<"P","e","r","f","o","r","m","a","n","c","e">>), Str(s_CountOnly), Str(<<"t","o","o"," ","m","a","n","y">>),
                <<WindowFilter(<<"1">>)>>),
      CheckElem(Str(<<"L","o","c","a","t","i","o","n","P","E","R","F","O","R","M","A","N","C","E">>), Str(s_CountOnly), None,
                <<WindowFilter(<<" ","+","2"," ">>), LevelFilter(s_L1)>>),
      CheckElem(Str(<<"W","a","l","l","P","e","r","f","o","r","m","a","n","c","e">>), Str(s_AttributeEquality), Str(<<"t","o","o"," ","m","a","n","y">>),
                <<WindowFilter(<<"0">>)>>),
      CheckElem(Str(<<"p","e","r","f","o","r","m","a","n","c","e","A">>), Str(s_CountOnly), Str(<<"t","o","o"," ","m","a","n","y">>), <<>>),
      CheckElem(Str(<<"p","e","r","f","o","r","m","a","n","c","e","B">>), Str(s_CountOnly), Str(<<"t","o","o"," ","m","a","n","y">>),
                <<WindowFilter(<<"1",".","5">>)>>),
      CheckElem(Str(<<"p","e","r","f","o","r","m","a","n","c","e","C">>), Str(s_CountOnly), None,
                <<FilterElem(Str(s_IsWindow), None)>>),
      CheckElem(Str(<<"V","i","e","w","L","o","c","a","t","i","o","n">>), None, None,
                <<LevelFilter(s_L1), WindowFilter(<<"1">>)>>),
      CheckElem(Str(<<"L","O","C","A","T","I","O","N">>), Str(s_CountOnly), Str(<<"w","r","o","n","g"," ","l","e","v","e","l">>), <<>>),
      CheckElem(Str(<<"R","e","v","i","e","w">>), Str(s_CountOnly), None,
                <<WindowFilter(<<"1">>)>>),
      CheckElem(Str(<<"F","a","m","i","l","y">>), None, None, <<>>),
      CheckElem(Str(<<"W","i","n","d","o","w","C","o","u","n","t","C","h","e","c","k">>), Str(s_CountOnly), Str(<<"t","o","o"," ","m","a","n","y">>),
                <<WindowFilter(<<"1">>)>>),
      CheckElem(None, Str(s_CountOnly), None, <<>>) }

\* the rule file: text that does not parse, or the Check elements of the
\* tree in document order (root.findall('.//Check'))
XmlFiles ==
    {[wellformed |-> FALSE, elems |-> <<>>]} \cup
    {[wellformed |-> TRUE, elems |-> e] :
        e \in UNION {[1..k -> CheckPool] : k \in 0..MaxChecks}}

(* ------------------------- the model data ----------------------------- *)
\* a record: a dict from property name to value
Rec1 == (s_Level :> Str(s_L1)) @@ (s_IsWindow :> Str(<<"1">>))
Rec2 == (s_Level :> Str(s_L2)) @@ (s_IsWindow :> Bool_(TRUE))
Rec3 == (s_Level :> Int_(1)) @@ (s_IsWindow :> Int_(0))
Rec4 == (s_IsWindow :> Str(<<>>))
RecordPool == {Rec1, Rec2, Rec3, Rec4}

ModelDatas == UNION {[1..k -> RecordPool] : k \in 0..MaxRecords}

(* ------------------------- parse_xml_requirements --------------------- *)
Categories == {"performance", "location", "views", "family", "custom"}

\* the dict built for one Filter element
filter_info(f) ==
    [property |-> f.Property, condition |-> f.Condition, value |-> f.Value]

\* the dict built for one Check element
check_info(c) ==
    [name |-> c.CheckName, description |-> c.Description,
     type |-> c.CheckType, condition |-> c.ResultCondition,
     failure_message |-> c.FailureMessage,
     filters |-> [j \in 1..Len(c.Filters) |-> filter_info(c.Filters[j])]]

\* the chain with the tests for "location" and "performance" exchanged
categorize_location_first(name) ==
    LET l == lower(name.s)
    IN IF Contains(s_location, l) THEN "location"
       ELSE IF Contains(s_performance, l) THEN "performance"
       ELSE IF Contains(s_view, l) THEN "views"
       ELSE IF Contains(s_family, l) THEN "family"
       ELSE "custom"

\* the if/elif chain on check_info['name'].lower(); name is a str here
categorize(name) ==
    LET l == lower(name.s)
    IN IF Contains(s_performance, l) THEN "performance"
       ELSE IF Contains(s_location, l) THEN "location"
       ELSE IF Contains(s_view, l) THEN "views"
       ELSE IF Contains(s_family, l) THEN "family"
       ELSE "custom"

EmptyChecks == [c \in Categories |-> <<>>]

\* the loop when a Check without a name is passed over instead of raising
RECURSIVE parse_loop_skip_unnamed(_, _, _)
parse_loop_skip_unnamed(elems, i, acc) ==
    IF i > Len(elems) THEN [err |-> "", checks |-> acc]
    ELSE LET info == check_info(elems[i])
         IN IF info.name.tag # "str"
            THEN parse_loop_skip_unnamed(elems, i + 1, acc)
            ELSE LET cat == categorize(info.name)
                 IN parse_loop_skip_unnamed(elems, i + 1,
                               [acc EXCEPT ![cat] = Append(@, info)])

\* the loop over root.findall('.//Check'): None.lower() raises AttributeError
\* and the dict built so far is lost
RECURSIVE parse_loop(_, _, _)
parse_loop(elems, i, acc) ==
    IF i > Len(elems) THEN [err |-> "", checks |-> acc]
    ELSE LET info == check_info(elems[i])
         IN IF info.name.tag # "str"
            THEN [err |-> "AttributeError", checks |-> EmptyChecks]
            ELSE LET cat == categorize(info.name)
                 IN parse_loop(elems, i + 1,
                               [acc EXCEPT ![cat] = Append(@, info)])

parse_xml_requirements(file) ==
    IF ~file.wellformed THEN [err |-> "ParseError", checks |-> EmptyChecks]
    ELSE parse_loop(file.elems, 1, EmptyChecks)

(* ------------------------- check_performance -------------------------- *)
\* sum(1 for obj in model_data if obj.get(property))
RECURSIVE count_truthy(_, _, _)
count_truthy(md, property, i) ==
    IF i > Len(md) THEN 0
    ELSE (IF Truthy(Get(md[i], property)) THEN 1 ELSE 0)
         + count_truthy(md, property, i + 1)

\* the loop body when the threshold itself already fails (count < T passes)
performance_result_strict(md, check) ==
    IF Len(check.filters) = 0 THEN [err |-> "IndexError", res |-> <<>>]
    ELSE LET count == count_truthy(md, check.filters[1].property, 1)
             t == int(check.filters[1].value)
         IN IF t.err # "" THEN [err |-> t.err, res |-> <<>>]
            ELSE [err |-> "",
                  res |-> <<[name |-> check.name,
                             result |-> count,
                             status |-> IF count < t.val THEN "Passed"
                                        ELSE "Failed",
                             message |-> IF count >= t.val
                                         THEN check.failure_message
                                         ELSE Str(<<>>)]>>]

\* the body of the loop for one CountOnly check: the result appended, or the
\* exception raised by filters[0] or int()
performance_result(md, check) ==
    IF Len(check.filters) = 0 THEN [err |-> "IndexError", res |-> <<>>]
    ELSE LET count == count_truthy(md, check.filters[1].property, 1)
             t == int(check.filters[1].value)
         IN IF t.err # "" THEN [err |-> t.err, res |-> <<>>]
            ELSE [err |-> "",
                  res |-> <<[name |-> check.name,
                             result |-> count,
                             status |-> IF count <= t.val THEN "Passed"
                                        ELSE "Failed",
                             message |-> IF count > t.val
                                         THEN check.failure_message
                                         ELSE Str(<<>>)]>>]

\* the loop without its test on the check type
is_count_only_any(check) == TRUE

\* whether the loop evaluates the check at all
is_count_only(check) == check.type.tag = "str" /\ check.type.s = s_CountOnly

\* the loop when each result is put in front of the list
RECURSIVE performance_loop_prepend(_, _, _, _)
performance_loop_prepend(md, cs, i, acc) ==
    IF i > Len(cs) THEN [err |-> "", results |-> acc]
    ELSE IF ~is_count_only(cs[i])
         THEN performance_loop_prepend(md, cs, i + 1, acc)
    ELSE LET r == performance_result(md, cs[i])
         IN IF r.err # "" THEN [err |-> r.err, results |-> <<>>]
            ELSE performance_loop_prepend(md, cs, i + 1, r.res \o acc)

RECURSIVE performance_loop(_, _, _, _)
performance_loop(md, cs, i, acc) ==
    IF i > Len(cs) THEN [err |-> "", results |-> acc]
    ELSE IF ~is_count_only(cs[i]) THEN performance_loop(md, cs, i + 1, acc)
    ELSE LET r == performance_result(md, cs[i])
         IN IF r.err # "" THEN [err |-> r.err, results |-> <<>>]
            ELSE performance_loop(md, cs, i + 1, acc \o r.res)

check_performance(md, cs) == performance_loop(md, cs, 1, <<>>)

(* ------------------------- check_location ----------------------------- *)
\* the inner loop over the filters of one record; st.cmps records every
\* evaluation of the comparison as <<record index, filter index>>
RECURSIVE filter_loop(_, _, _, _, _)
filter_loop(md, fs, i, j, st) ==
    IF j > Len(fs) THEN st
    ELSE LET seen == Append(st.cmps, <<i, j>>)
         IN IF PyNe(Get(md[i], fs[j].property), fs[j].value)
            THEN [passed |-> FALSE, cmps |-> seen]
            ELSE filter_loop(md, fs, i, j + 1, [st EXCEPT !.cmps = seen])

\* the outer loop without its break: later records are still compared
RECURSIVE record_loop_no_break(_, _, _, _)
record_loop_no_break(md, fs, i, st) ==
    IF i > Len(md) THEN st
    ELSE LET st2 == filter_loop(md, fs, i, 1, st)
         IN record_loop_no_break(md, fs, i + 1,
                [passed |-> st.passed /\ st2.passed, cmps |-> st2.cmps])

\* the outer loop over the records, left as soon as passed is False
RECURSIVE record_loop(_, _, _, _)
record_loop(md, fs, i, st) ==
    IF i > Len(md) THEN st
    ELSE LET st2 == filter_loop(md, fs, i, 1, st)
         IN IF ~st2.passed THEN st2
            ELSE record_loop(md, fs, i + 1, st2)

location_result(md, check) ==
    LET st == record_loop(md, check.filters, 1,
                          [passed |-> TRUE, cmps |-> <<>>])
    IN [res |-> [name |-> check.name,
                 status |-> IF st.passed THEN "Passed" ELSE "Failed",
                 message |-> IF st.passed THEN Str(<<>>)
                             ELSE check.failure_message],
        cmps |-> st.cmps]

check_location(md, cs) ==
    [k \in 1..Len(cs) |-> location_result(md, cs[k]).res]

\* the comparisons each check performed, in the order performed
location_comparisons(md, cs) ==
    [k \in 1..Len(cs) |-> location_result(md, cs[k]).cmps]

(* ------------------------- run_all_checks ----------------------------- *)
\* the concatenation with its operands exchanged
aggregate_location_first(perf, loc) == loc \o perf

aggregate(perf, loc) == perf \o loc

(* ------------------------- automate_function -------------------------- *)
\* the log call when the status is not looked at
log_entry_info_only(result) ==
    [level |-> "info", text |-> Format(result.name) \o s_passed]

\* the log call made for one result
log_entry(result) ==
    IF result.status = "Failed"
    THEN [level |-> "failure",
          text |-> Format(result.name) \o s_failed \o Format(result.message)]
    ELSE [level |-> "info", text |-> Format(result.name) \o s_passed]

NoOutcome == [error |-> "", returned |-> FALSE, results |-> <<>>]

Init ==
    /\ xml_file \in XmlFiles
    /\ model_data \in ModelDatas
    /\ pc = "parse"
    /\ error = ""
    /\ checks = EmptyChecks
    /\ performance_results = <<>>
    /\ location_results = <<>>
    /\ comparisons = <<>>
    /\ results = <<>>
    /\ returned = FALSE
    /\ log = <<>>
    /\ output = <<>>
    /\ run = 1
    /\ first_outcome = NoOutcome

\* run_all_checks, line 96: parse the rule file; an exception leaves
\* automate_function
Parse ==
    /\ pc = "parse"
    /\ LET p == parse_xml_requirements(xml_file)
       IN /\ error' = p.err
          /\ checks' = p.checks
          /\ pc' = IF p.err = "" THEN "performance" ELSE "aborted"
    /\ UNCHANGED <<xml_file, model_data, performance_results,
                   location_results, comparisons, results, returned, log,
                   output, run, first_outcome>>

\* run_all_checks, line 97
CheckPerformance ==
    /\ pc = "performance"
    /\ LET r == check_performance(model_data, checks["performance"])
       IN /\ error' = r.err
          /\ performance_results' = r.results
          /\ pc' = IF r.err = "" THEN "location" ELSE "aborted"
    /\ UNCHANGED <<xml_file, model_data, checks, location_results,
                   comparisons, results, returned, log, output, run,
                   first_outcome>>

\* line 98 when the evaluator takes the records off the list it is given
CheckLocation_consuming ==
    /\ pc = "location"
    /\ location_results' = check_location(model_data, checks["location"])
    /\ comparisons' = location_comparisons(model_data, checks["location"])
    /\ model_data' = <<>>
    /\ pc' = "aggregate"
    /\ UNCHANGED <<xml_file, error, checks, performance_results,
                   results, returned, log, output, run, first_outcome>>

\* run_all_checks, line 98
CheckLocation ==
    /\ pc = "location"
    /\ location_results' = check_location(model_data, checks["location"])
    /\ comparisons' = location_comparisons(model_data, checks["location"])
    /\ pc' = "aggregate"
    /\ UNCHANGED <<xml_file, model_data, error, checks, performance_results,
                   results, returned, log, output, run, first_outcome>>

\* run_all_checks, lines 99-100, and the assignment of line 114
Aggregate ==
    /\ pc = "aggregate"
    /\ results' = aggregate(performance_results, location_results)
    /\ returned' = TRUE
    /\ pc' = "log"
    /\ UNCHANGED <<xml_file, model_data, error, checks, performance_results,
                   location_results, comparisons, log, output, run,
                   first_outcome>>

\* one iteration of the logging loop, lines 117-123
LogResult ==
    /\ pc = "log"
    /\ Len(log) < Len(results)
    /\ log' = Append(log, log_entry(results[Len(log) + 1]))
    /\ UNCHANGED <<xml_file, model_data, pc, error, checks,
                   performance_results, location_results, comparisons,
                   results, returned, output, run, first_outcome>>

\* line 126, after the loop has ended
SetOutputData ==
    /\ pc = "log"
    /\ Len(log) = Len(results)
    /\ output' = Append(output, [key |-> s_validation_results,
                                 data |-> results])
    /\ pc' = "done"
    /\ UNCHANGED <<xml_file, model_data, error, checks, performance_results,
                   location_results, comparisons, results, returned, log,
                   run, first_outcome>>

\* the host runs the function a second time on the same rule file and the
\* same model data, with a fresh context
Reinvoke ==
    /\ pc \in {"done", "aborted"}
    /\ run = 1
    /\ run' = 2
    /\ first_outcome' = [error |-> error, returned |-> returned,
                         results |-> results]
    /\ pc' = "parse"
    /\ error' = ""
    /\ checks' = EmptyChecks
    /\ performance_results' = <<>>
    /\ location_results' = <<>>
    /\ comparisons' = <<>>
    /\ results' = <<>>
    /\ returned' = FALSE
    /\ log' = <<>>
    /\ output' = <<>>
    /\ UNCHANGED <<xml_file, model_data>>

Next ==
    \/ Parse
    \/ CheckPerformance
    \/ CheckLocation
    \/ Aggregate
    \/ LogResult
    \/ SetOutputData
    \/ Reinvoke

Spec == Init /\ [][Next]_vars

(* ======================= properties =================================== *)
\* the word w occurs in the name n when case is ignored, letter by letter
HasWord(w, n) ==
    LET ln == [i \in 1..Len(n) |-> LowerChar(n[i])]
    IN \E k \in 1..(Len(n) - Len(w) + 1) :
          \A d \in 1..Len(w) : ln[k + d - 1] = w[d]

\* which of the four words a name holds
WordsIn(n) ==
    [p |-> HasWord(s_performance, n), l |-> HasWord(s_location, n),
     v |-> HasWord(s_view, n), f |-> HasWord(s_family, n)]

\* the category the priority order gives a name holding the words h
CategoryOfWords(h) ==
    CHOOSE cat \in Categories :
        /\ cat = "performance" <=> h.p
        /\ cat = "location" <=> ~h.p /\ h.l
        /\ cat = "views" <=> ~h.p /\ ~h.l /\ h.v
        /\ cat = "family" <=> ~h.p /\ ~h.l /\ ~h.v /\ h.f

\* the category the priority order gives a name
ExpectedCategory(n) == CategoryOfWords(WordsIn(n))

\* the expected category of every Check element of the file
FileCategories ==
    [i \in 1..Len(xml_file.elems) |->
        ExpectedCategory(xml_file.elems[i].CheckName.s)]

\* the Check elements of the file that fall in a category (and, for
\* wantCountOnly, carry CheckType "CountOnly"), in file order
RECURSIVE ElemsOf(_, _, _, _)
ElemsOf(cats, cat, wantCountOnly, i) ==
    IF i > Len(cats) THEN <<>>
    ELSE LET e == xml_file.elems[i]
             keep == /\ cats[i] = cat
                     /\ wantCountOnly => e.CheckType = Str(s_CountOnly)
         IN (IF keep THEN <<e>> ELSE <<>>)
            \o ElemsOf(cats, cat, wantCountOnly, i + 1)

NamesOfElems(es) == [k \in 1..Len(es) |-> es[k].CheckName]
NamesOf(rs) == [k \in 1..Len(rs) |-> rs[k].name]

RECURSIVE CountOnlyOf(_, _)
CountOnlyOf(cs, i) ==
    IF i > Len(cs) THEN <<>>
    ELSE (IF cs[i].type = Str(s_CountOnly) THEN <<cs[i]>> ELSE <<>>)
         \o CountOnlyOf(cs, i + 1)

FileNamed ==
    /\ xml_file.wellformed
    /\ \A i \in 1..Len(xml_file.elems) :
          xml_file.elems[i].CheckName.tag = "str"

ParseErrors == {"ParseError", "AttributeError"}
RuleErrors == {"IndexError", "ValueError", "TypeError"}

\* parse_xml_requirements has returned its dict
Parsed == pc # "parse" /\ error \notin ParseErrors
\* check_performance has returned its list
PerformanceDone == pc \in {"location", "aggregate", "log", "done"}
\* check_location has returned its list
LocationDone == pc \in {"aggregate", "log", "done"}

\* C1: every parsed Check is in exactly one category list, the one the
\* priority order performance > location > view > family > custom gives its
\* lower-cased name; each list keeps the file order
C1_CategoryByPriority ==
    Parsed =>
      LET words == [i \in 1..Len(xml_file.elems) |->
                       WordsIn(xml_file.elems[i].CheckName.s)]
          cats == [i \in 1..Len(words) |-> CategoryOfWords(words[i])]
      IN /\ \A cat \in Categories :
               LET es == ElemsOf(cats, cat, FALSE, 1)
               IN checks[cat] = [k \in 1..Len(es) |-> check_info(es[k])]
         /\ Len(checks["performance"]) + Len(checks["location"])
            + Len(checks["views"]) + Len(checks["family"])
            + Len(checks["custom"]) = Len(xml_file.elems)
         /\ \A i \in 1..Len(words) :
               LET info == check_info(xml_file.elems[i])
                   In(cat) == \E k \in 1..Len(checks[cat]) :
                                 checks[cat][k] = info
               IN /\ words[i].p /\ words[i].l => In("performance")
                  /\ words[i].l /\ words[i].v /\ ~words[i].p
                     => In("location")

C1_Witness ==
    /\ Parsed
    /\ \E k \in 1..Len(checks["performance"]) :
          HasWord(s_location, checks["performance"][k].name.s)
    /\ \E k \in 1..Len(checks["location"]) :
          HasWord(s_view, checks["location"][k].name.s)

\* the records whose value for the property is present and truthy
TruthyRecords(property) ==
    {i \in 1..Len(model_data) :
        /\ property.tag = "str"
        /\ property.s \in DOMAIN model_data[i]
        /\ Truthy(model_data[i][property.s])}

\* C2: for a CountOnly performance rule with a first filter and an integer
\* threshold T, the result field is the number of records whose value for the
\* filter's property is present and truthy, the status is Failed iff that
\* number exceeds T and Passed iff it does not, and the message is the rule's
\* failure message when Failed and empty when Passed
C2_CountOnlyResult ==
    PerformanceDone =>
      LET cs == CountOnlyOf(checks["performance"], 1)
      IN /\ Len(performance_results) = Len(cs)
         /\ \A k \in 1..Len(cs) :
              LET r == performance_results[k]
                  count == Cardinality(TruthyRecords(cs[k].filters[1].property))
                  T == int(cs[k].filters[1].value).val
              IN /\ Len(cs[k].filters) >= 1
                 /\ int(cs[k].filters[1].value).err = ""
                 /\ r.result = count
                 /\ r.status = "Failed" <=> count > T
                 /\ r.status = "Passed" <=> count <= T
                 /\ r.status = "Failed" => r.message = cs[k].failure_message
                 /\ r.status = "Passed" => r.message = Str(<<>>)

C2_Witness ==
    /\ PerformanceDone
    /\ \E k \in 1..Len(performance_results) :
          /\ performance_results[k].status = "Failed"
          /\ performance_results[k].result = 2
    /\ \E k \in 1..Len(performance_results) :
          /\ performance_results[k].status = "Passed"
          /\ performance_results[k].result = 2

\* C3: check_location compares record by record and, within a record, filter
\* by filter; the rule is Failed iff some (record, filter) pair differs; the
\* comparisons made are exactly the pairs up to and including the first
\* differing one in record-major order; with no filters or no records the
\* rule is Passed with an empty message
C3_ShortCircuit ==
    LocationDone =>
      /\ Len(comparisons) = Len(checks["location"])
      /\ \A k \in 1..Len(checks["location"]) :
           LET fs == checks["location"][k].filters
               nf == Len(fs)
               nr == Len(model_data)
               r == location_results[k]
               cmps == comparisons[k]
               Differs(i, j) ==
                   LET key == fs[j].property
                       held == IF key.tag = "str"
                                  /\ key.s \in DOMAIN model_data[i]
                               THEN model_data[i][key.s] ELSE None
                   IN held # fs[j].value
           IN /\ r.status = "Failed" <=>
                    \E i \in 1..nr : \E j \in 1..nf : Differs(i, j)
              /\ r.status \in {"Passed", "Failed"}
              /\ \A q \in 1..Len(cmps) :
                    /\ cmps[q] = <<((q - 1) \div nf) + 1, ((q - 1) % nf) + 1>>
                    /\ q < Len(cmps) => ~Differs(cmps[q][1], cmps[q][2])
              /\ r.status = "Failed" =>
                    /\ cmps # <<>>
                    /\ Differs(cmps[Len(cmps)][1], cmps[Len(cmps)][2])
                    /\ r.message = checks["location"][k].failure_message
              /\ r.status = "Passed" =>
                    /\ Len(cmps) = nr * nf
                    /\ r.message = Str(<<>>)
              /\ nf = 0 \/ nr = 0 =>
                    r.status = "Passed" /\ r.message = Str(<<>>)

\* a Failed rule that left a filter of the failing record and a whole later
\* record uncompared
C3_Witness ==
    /\ LocationDone
    /\ Len(model_data) = 2
    /\ \E k \in 1..Len(checks["location"]) :
          /\ Len(checks["location"][k].filters) = 2
          /\ location_results[k].status = "Failed"
          /\ comparisons[k] = <<<<1, 1>>>>

C5_PerformanceThenLocation ==
    returned =>
      LET cats == FileCategories
          perf == ElemsOf(cats, "performance", TRUE, 1)
          loc == ElemsOf(cats, "location", FALSE, 1)
      IN /\ NamesOf(results) = NamesOfElems(perf) \o NamesOfElems(loc)
         /\ \A k \in 1..Len(results) :
               (k <= Len(perf)) <=> ("result" \in DOMAIN results[k])

\* the file names a location rule before a performance rule
C5_Witness ==
    /\ returned
    /\ Len(results) = 2
    /\ Len(xml_file.elems) = 2
    /\ results[1].name = xml_file.elems[2].CheckName
    /\ results[2].name = xml_file.elems[1].CheckName
    /\ "result" \in DOMAIN results[1]
    /\ "result" \notin DOMAIN results[2]

\* a performance rule the CountOnly evaluator cannot evaluate
InvalidRule(e) ==
    /\ e.CheckType = Str(s_CountOnly)
    /\ \/ e.Filters = <<>>
       \/ int(e.Filters[1].Value).err # ""

\* C6 as stated: a CountOnly rule without filters or with a non-integer
\* threshold does not abort the run, and every other performance and
\* location rule still yields its result
C6_RuleFailureIsolated ==
    /\ ~(pc = "aborted" /\ error \in RuleErrors)
    /\ (FileNamed /\ pc = "done") =>
          LET cats == FileCategories
              perf == ElemsOf(cats, "performance", TRUE, 1)
              loc == ElemsOf(cats, "location", FALSE, 1)
          IN \A e \in {perf[k] : k \in 1..Len(perf)}
                      \cup {loc[k] : k \in 1..Len(loc)} :
                ~InvalidRule(e) =>
                    \E k \in 1..Len(results) : results[k].name = e.CheckName

\* C7: when the rule file does not parse, or a Check has no CheckName, the
\* run aborts in the parser: no result list is returned, no log entry is
\* written and set_output_data is never called, whatever precedes the
\* failing Check
C7_ParseFailureFatal ==
    ~FileNamed =>
      /\ pc \in {"parse", "aborted"}
      /\ pc = "aborted" => error \in ParseErrors
      /\ ~returned
      /\ results = <<>>
      /\ log = <<>>
      /\ output = <<>>

\* a valid location rule precedes the nameless Check
C7_Witness ==
    /\ pc = "aborted"
    /\ error = "AttributeError"
    /\ Len(xml_file.elems) = 2
    /\ xml_file.elems[1].CheckName.tag = "str"
    /\ HasWord(s_location, xml_file.elems[1].CheckName.s)
    /\ xml_file.elems[2].CheckName = None

\* C8: rules of the views, family and custom categories, and performance
\* rules whose type is not "CountOnly", add nothing to the returned list:
\* its length is the number of CountOnly performance rules plus the number
\* of location rules, and a file without Check elements gives the empty list
C8_UnclaimedRulesSkipped ==
    returned =>
      LET cats == FileCategories
          perf == ElemsOf(cats, "performance", TRUE, 1)
          loc == ElemsOf(cats, "location", FALSE, 1)
      IN /\ Len(results) = Len(perf) + Len(loc)
         /\ \A i \in 1..Len(cats) :
               \/ cats[i] \in {"views", "family", "custom"}
               \/ /\ cats[i] = "performance"
                  /\ xml_file.elems[i].CheckType # Str(s_CountOnly)
               => \A k \in 1..Len(results) :
                     results[k].name # xml_file.elems[i].CheckName
         /\ xml_file.elems = <<>> => results = <<>>

\* a performance rule of another type next to an evaluated location rule
C8_Witness ==
    /\ returned
    /\ Len(results) = 1
    /\ \E i \in 1..Len(xml_file.elems) :
          /\ HasWord(s_performance, xml_file.elems[i].CheckName.s)
          /\ xml_file.elems[i].CheckType = Str(s_AttributeEquality)
          /\ xml_file.elems[i].Filters # <<>>

C10_LogThenOutput ==
    /\ Len(output) <= 1
    /\ Len(log) <= Len(results)
    /\ output # <<>> =>
          /\ Len(log) = Len(results)
          /\ output[1].key = s_validation_results
          /\ output[1].data = results
    /\ pc = "done" => Len(output) = 1
    /\ \A k \in 1..Len(log) :
          LET name == results[k].name.s
          IN /\ log[k].level = "failure" <=> results[k].status = "Failed"
             /\ log[k].level = "info" <=> results[k].status # "Failed"
             /\ SubSeq(log[k].text, 1, Len(name)) = name
             /\ results[k].status = "Failed" =>
                   log[k].text = name \o s_failed \o Format(results[k].message)

C10_Witness ==
    /\ pc = "done"
    /\ Len(log) = 2
    /\ log[1].level = "failure"
    /\ log[2].level = "info"
    /\ output[1].data[1].status = "Failed"

====
